---- MODULE Spec2Model ----
\* Verification model of the gmaps-scraper repository: the address parser,
\* the field extractor, the (name, full_address) deduplicator, the search
\* orchestrator of improved_scraper.py and the batch runner of
\* enhanced_test_runner.py.
\*
\* Python strings are modelled as sequences of one-character strings, so that
\* the regular expressions and str methods of the code are computed character
\* by character.
EXTENDS Integers, Sequences, FiniteSets, TLC

VARIABLES
    address,            \* parse_address: the argument of the call
    parts,              \* parse_address: the returned dict, or None before the call
    view,               \* extract_business_info: the detail view the driver shows
    info,               \* extract_business_info: the value returned
    called,             \* extract_business_info has returned
    results,            \* GoogleMapsScraper.results
    seen_identifiers,   \* GoogleMapsScraper._seen_identifiers
    config,             \* ScraperConfig of the batch run
    rpc,                \* run_enhanced_scraper: where the coroutine stands
    exit_code,          \* run_enhanced_scraper: the value returned
    session,            \* scraper_session: "none", "open" or "closed"
    coro,               \* per task: state of its perform_search_with_timeout call
    initial_count,      \* per task: initial_count of perform_search_with_timeout
    progress,           \* ProgressReporter counters
    written,            \* the output file the run has written, or None
    pc,                 \* per task: where its search_locations thread stands
    attempt,            \* per task: attempt of the retry loop of search_locations
    processed,          \* per task: processed of _perform_search
    consecutive_failures, \* per task: consecutive_failures of _perform_search
    business_data,      \* per task: business_data of _process_single_result
    outcome,            \* per task: how its search_locations call ended
    max_to_load,        \* scroll_results: the argument of the call
    count,              \* scroll_results: count, the tiles last seen
    prev_count,         \* scroll_results: prev_count
    stagnant_rounds,    \* scroll_results: stagnant_rounds
    scroll_at,          \* scroll_results: where the call stands
    queries_left,       \* run_scrape: queries the two for loops have still to run
    scrape_at,          \* run_scrape: where the call stands
    q_records,          \* run_scrape: q_records of the query under way
    all_records,        \* run_scrape: all_records
    captured,           \* run_scrape: every record kept by the card loops, in order
    clean,              \* run_scrape: the records written at the end
    tiles               \* _perform_search: len(tiles) of the round under way

parseVars == <<address, parts>>

extractVars == <<view, info, called>>

scraperVars == <<results, seen_identifiers>>

runnerVars == <<config, rpc, exit_code, session, coro, initial_count, progress,
                written>>

taskVars == <<pc, attempt, processed, consecutive_failures, business_data, outcome>>

scrollVars == <<max_to_load, count, prev_count, stagnant_rounds, scroll_at>>

dedupeVars == <<queries_left, scrape_at, q_records, all_records, captured, clean>>

vars == <<address, parts, view, info, called, results, seen_identifiers,
          config, rpc, exit_code, session, coro, initial_count, progress,
          written, pc, attempt, processed, consecutive_failures, business_data,
          outcome, max_to_load, count, prev_count, stagnant_rounds, scroll_at,
          queries_left, scrape_at, q_records, all_records, captured, clean,
          tiles>>

\* Python's None, as a value TLC can compare with a dict (a function)
None == [None |-> TRUE]

\* dict: a function from keys to values. d[k] = v and d.update(e)
EmptyDict == [k \in {} |-> <<>>]

SetItem(d, k, v) == (k :> v) @@ d

update(d, e) == e @@ d

\* ---------------------------------------------------------------------
\* Characters and the str / re primitives the code uses
\* ---------------------------------------------------------------------

Digit == {"0", "1", "2", "3", "4", "5", "6", "7", "8", "9"}

Upper == {"A", "B", "C", "D", "E", "F", "G", "H", "I", "J", "K", "L", "M",
          "N", "O", "P", "Q", "R", "S", "T", "U", "V", "W", "X", "Y", "Z"}

Lower == {"a", "b", "c", "d", "e", "f", "g", "h", "i", "j", "k", "l", "m",
          "n", "o", "p", "q", "r", "s", "t", "u", "v", "w", "x", "y", "z"}

\* \w of the re module (ASCII part)
WordChar == Digit \cup Upper \cup Lower \cup {"_"}

\* \s of the re module and the characters str.strip() removes (ASCII part)
Space == {" ", "\t", "\n", "\r", "\f"}

Char == WordChar \cup Space \cup {",", "-", ".", "/", "(", ")", ":", "#"}

\* The sentinel 'N/A'
NA == <<"N", "/", "A">>

\* s[i:i+n] consists of n digits (\d{n} matches at i)
AllDigits(s, i, n) ==
    /\ i >= 1
    /\ i + n - 1 <= Len(s)
    /\ \A k \in i..(i + n - 1) : s[k] \in Digit

\* \b matches between s[i-1] and s[i] (i in 1..Len(s)+1)
WordBoundary(s, i) ==
    LET before == i > 1 /\ i - 1 <= Len(s) /\ s[i - 1] \in WordChar
        after  == i >= 1 /\ i <= Len(s) /\ s[i] \in WordChar
    IN  before # after

\* First index j >= i with s[j] not a whitespace character (Len(s)+1 when
\* there is none): where a greedy \s* started at i stops.
RECURSIVE SkipSpaces(_, _)
SkipSpaces(s, i) ==
    IF i <= Len(s) /\ s[i] \in Space THEN SkipSpaces(s, i + 1) ELSE i

\* \s*$ matches at i: only whitespace from i to the end
OnlySpacesFrom(s, i) == SkipSpaces(s, i) = Len(s) + 1

\* str.strip()
RECURSIVE LastNonSpace(_, _)
LastNonSpace(s, j) ==
    IF j >= 1 /\ s[j] \in Space THEN LastNonSpace(s, j - 1) ELSE j

strip(s) ==
    LET a == SkipSpaces(s, 1)
        b == LastNonSpace(s, Len(s))
    IN  IF a > b THEN <<>> ELSE SubSeq(s, a, b)

\* ---------------------------------------------------------------------
\* Address parser (improved_scraper.py)
\* ---------------------------------------------------------------------

\* Length of the match of _postal_re = \b(\d{5})(?:-\d{4})?\b starting at
\* index i, 0 when it does not match there. The optional group is greedy:
\* the ZIP+4 form is tried first, the bare 5-digit form on backtracking.
PostalMatchLen(s, i) ==
    IF ~(WordBoundary(s, i) /\ AllDigits(s, i, 5)) THEN 0
    ELSE IF /\ i + 5 <= Len(s)
            /\ s[i + 5] = "-"
            /\ AllDigits(s, i + 6, 4)
            /\ WordBoundary(s, i + 10) THEN 10
    ELSE IF WordBoundary(s, i + 5) THEN 5
    ELSE 0

\* self._postal_re.search(address): the start of the leftmost match, 0 when
\* there is no match
postal_search(s) ==
    LET hits == {i \in 1..Len(s) : PostalMatchLen(s, i) > 0}
    IN  IF hits = {} THEN 0
        ELSE CHOOSE i \in hits : \A j \in hits : i <= j

\* postal_match.group(0): the whole match
group0(s, i) == SubSeq(s, i, i + PostalMatchLen(s, i) - 1)

\* postal_match.group(1): the five digits
group1(s, i) == SubSeq(s, i, i + 4)

\* ,\s*[A-Z]{2}\s*\d{5}(?:-\d{4})?\s*$ matches starting at index i
StateZipMatchAt(s, i) ==
    /\ i >= 1 /\ i <= Len(s)
    /\ s[i] = ","
    /\ LET a == SkipSpaces(s, i + 1)
       IN  /\ a + 1 <= Len(s)
           /\ s[a] \in Upper
           /\ s[a + 1] \in Upper
           /\ LET b == SkipSpaces(s, a + 2)
              IN  /\ AllDigits(s, b, 5)
                  /\ \/ /\ b + 5 <= Len(s)
                        /\ s[b + 5] = "-"
                        /\ AllDigits(s, b + 6, 4)
                        /\ OnlySpacesFrom(s, b + 10)
                     \/ OnlySpacesFrom(s, b + 5)

\* re.sub(r',\s*[A-Z]{2}\s*\d{5}(?:-\d{4})?\s*$', '', address): the leftmost
\* match reaches the end of the string, so it is the only one replaced
sub_state_zip(s) ==
    LET hits == {i \in 1..Len(s) : StateZipMatchAt(s, i)}
    IN  IF hits = {} THEN s
        ELSE SubSeq(s, 1, (CHOOSE i \in hits : \A j \in hits : i <= j) - 1)

\* parse_address with the street trimmed on the no-match branch as well
parse_address_trims_unmatched(a) ==
    LET m == postal_search(a)
    IN  IF m # 0
        THEN [postal_code |-> group0(a, m), street |-> strip(sub_state_zip(a))]
        ELSE [postal_code |-> NA, street |-> strip(a)]

parse_address(a) ==
    LET m == postal_search(a)
    IN  IF m # 0
        THEN [postal_code |-> group0(a, m), street |-> strip(sub_state_zip(a))]
        ELSE [postal_code |-> NA, street |-> a]

\* ---------------------------------------------------------------------
\* Field extractor (improved_scraper.py, extract_business_info)
\* ---------------------------------------------------------------------

\* sub in s, as the start of the leftmost occurrence (0 when absent)
FindSub(s, sub) ==
    LET hits == {i \in 1..(Len(s) - Len(sub) + 1) :
                    SubSeq(s, i, i + Len(sub) - 1) = sub}
    IN  IF hits = {} THEN 0
        ELSE CHOOSE i \in hits : \A j \in hits : i <= j

\* str.isdigit()
isdigit(s) == s # <<>> /\ \A i \in 1..Len(s) : s[i] \in Digit

\* str.replace(c, '') for a one-character c
RECURSIVE remove_char(_, _)
remove_char(s, c) ==
    IF s = <<>> THEN <<>>
    ELSE IF Head(s) = c THEN remove_char(Tail(s), c)
    ELSE <<Head(s)>> \o remove_char(Tail(s), c)

\* str(n) for n >= 0
DigitChar(d) == <<"0", "1", "2", "3", "4", "5", "6", "7", "8", "9">>[d + 1]

RECURSIVE str(_)
str(n) == IF n < 10 THEN <<DigitChar(n)>>
          ELSE str(n \div 10) \o <<DigitChar(n % 10)>>

\* End (exclusive) of the run of digits that starts at index i
RECURSIVE DigitsEnd(_, _)
DigitsEnd(s, i) ==
    IF i <= Len(s) /\ s[i] \in Digit THEN DigitsEnd(s, i + 1) ELSE i

\* The result of re.search: no match, or a match with its group(1)
NoMatch == [matched |-> FALSE]

Match(g) == [matched |-> TRUE, group1 |-> g]

\* re.search(r'(\d+\.?\d*)', s)
search_rating(s) ==
    LET hits == {i \in 1..Len(s) : s[i] \in Digit}
    IN  IF hits = {} THEN NoMatch
        ELSE LET a == CHOOSE i \in hits : \A j \in hits : i <= j
                 b == DigitsEnd(s, a)
                 c == IF b <= Len(s) /\ s[b] = "." THEN DigitsEnd(s, b + 1) ELSE b
             IN  Match(SubSeq(s, a, c - 1))

\* End (exclusive) of the greedy (?:,\d{3})* started at index i
RECURSIVE GroupsEnd(_, _)
GroupsEnd(s, i) ==
    IF i <= Len(s) /\ s[i] = "," /\ AllDigits(s, i + 1, 3)
    THEN GroupsEnd(s, i + 4) ELSE i

\* re.search(r'(\d{1,3}(?:,\d{3})*|\d+)', s). The first alternative always
\* matches at the first digit: at most three digits, then every ",ddd" group
\* that follows.
search_count(s) ==
    LET hits == {i \in 1..Len(s) : s[i] \in Digit}
    IN  IF hits = {} THEN NoMatch
        ELSE LET a == CHOOSE i \in hits : \A j \in hits : i <= j
                 e == DigitsEnd(s, a)
                 b == IF e - a > 3 THEN a + 3 ELSE e
             IN  Match(SubSeq(s, a, GroupsEnd(s, b) - 1))

\* Outcomes of one driver lookup (find_element, title, current_url)
NoSuchElement == [kind |-> "NoSuchElementException"]

DriverError == [kind |-> "WebDriverException"]

\* get_attribute: the attribute is not set (None), or its value
NoAttr == [set |-> FALSE]

Attr(t) == [set |-> TRUE, val |-> t]

Element(text, label, link) ==
    [kind |-> "element", text |-> text, aria_label |-> label, href |-> link]

Text(t) == Element(t, NoAttr, NoAttr)

\* A for loop over selectors that takes element.text.strip() of the first
\* element whose stripped text is not empty (name, address, phone). A lookup
\* that raises NoSuchElementException is skipped; any other exception leaves
\* the loop.
RECURSIVE first_text(_, _)
first_text(outs, i) ==
    IF i > Len(outs) THEN [st |-> "not_found"]
    ELSE IF outs[i].kind = "NoSuchElementException" THEN first_text(outs, i + 1)
    ELSE IF outs[i].kind # "element" THEN [st |-> "raised"]
    ELSE IF strip(outs[i].text) # <<>>
         THEN [st |-> "found", val |-> strip(outs[i].text)]
         ELSE first_text(outs, i + 1)

\* The website loop: the href of the first element whose href is set and
\* does not contain 'google.com'
GoogleCom == <<"g", "o", "o", "g", "l", "e", ".", "c", "o", "m">>

RECURSIVE first_href(_, _)
first_href(outs, i) ==
    IF i > Len(outs) THEN [st |-> "not_found"]
    ELSE IF outs[i].kind = "NoSuchElementException" THEN first_href(outs, i + 1)
    ELSE IF outs[i].kind # "element" THEN [st |-> "raised"]
    ELSE IF /\ outs[i].href.set
            /\ outs[i].href.val # <<>>
            /\ FindSub(outs[i].href.val, GoogleCom) = 0
         THEN [st |-> "found", val |-> outs[i].href.val]
         ELSE first_href(outs, i + 1)

\* The rating loop: the stripped text when it is a number written with
\* digits, '.' and ',', else the first number of the aria-label
RECURSIVE first_rating(_, _)
first_rating(outs, i) ==
    IF i > Len(outs) THEN [st |-> "not_found"]
    ELSE IF outs[i].kind = "NoSuchElementException" THEN first_rating(outs, i + 1)
    ELSE IF outs[i].kind # "element" THEN [st |-> "raised"]
    ELSE LET t == strip(outs[i].text)
         IN  IF t # <<>> /\ isdigit(remove_char(remove_char(t, "."), ","))
             THEN [st |-> "found", val |-> t]
             ELSE IF /\ outs[i].aria_label.set
                     /\ outs[i].aria_label.val # <<>>
                     /\ search_rating(outs[i].aria_label.val).matched
                  THEN [st |-> "found",
                        val |-> search_rating(outs[i].aria_label.val).group1]
                  ELSE first_rating(outs, i + 1)

\* The review count loop over the CSS selectors
RECURSIVE first_count(_, _)
first_count(outs, i) ==
    IF i > Len(outs) THEN [st |-> "not_found"]
    ELSE IF outs[i].kind = "NoSuchElementException" THEN first_count(outs, i + 1)
    ELSE IF outs[i].kind # "element" THEN [st |-> "raised"]
    ELSE IF search_count(strip(outs[i].text)).matched
         THEN [st |-> "found", val |-> search_count(strip(outs[i].text)).group1]
         ELSE first_count(outs, i + 1)

\* The XPath fallback for the review count; every exception is swallowed
xpath_count(out) ==
    IF out.kind = "element" /\ search_count(strip(out.text)).matched
    THEN search_count(strip(out.text)).group1
    ELSE NA

Unknown == <<"U", "n", "k", "n", "o", "w", "n">>

TitleSuffix == <<" ", "-", " ", "G", "o", "o", "g", "l", "e", " ", "M", "a", "p", "s">>

Stars == <<" ", "s", "t", "a", "r", "s", " ", "(">>

Reviews == <<" ", "r", "e", "v", "i", "e", "w", "s", ")">>

\* Lines 349-378: the name, from the heading or from the page title
extract_name(page, data) ==
    LET r == first_text(page.name, 1)
    IN  IF r.st = "raised" THEN None
        ELSE IF r.st = "found" THEN SetItem(data, "name", r.val)
        ELSE IF page.title.kind # "element" THEN None
        ELSE IF page.title.text # <<>> /\ FindSub(page.title.text, TitleSuffix) # 0
             THEN SetItem(data, "name",
                     strip(SubSeq(page.title.text, 1,
                                  FindSub(page.title.text, TitleSuffix) - 1)))
             ELSE SetItem(data, "name", Unknown)

\* extract_address on which the record depends: no record without an address
extract_address_required(page, data) ==
    LET r == first_text(page.address, 1)
    IN  IF r.st = "found"
        THEN update(SetItem(data, "full_address", r.val), parse_address(r.val))
        ELSE None

\* Lines 380-406: full_address, street and postal_code
extract_address(page, data) ==
    LET r == first_text(page.address, 1)
    IN  IF r.st = "raised" THEN None
        ELSE IF r.st = "found"
             THEN update(SetItem(data, "full_address", r.val), parse_address(r.val))
             ELSE SetItem(SetItem(SetItem(data, "full_address", NA),
                                  "street", NA), "postal_code", NA)

\* extract_phone without the default: phone stays unset when not found
extract_phone_no_default(page, data) ==
    LET r == first_text(page.phone, 1)
    IN  IF r.st = "raised" THEN None
        ELSE IF r.st = "found" THEN SetItem(data, "phone", r.val) ELSE data

\* Lines 408-430: phone
extract_phone(page, data) ==
    LET r == first_text(page.phone, 1)
    IN  IF r.st = "raised" THEN None
        ELSE SetItem(data, "phone", IF r.st = "found" THEN r.val ELSE NA)

\* Lines 432-455: website
extract_website(page, data) ==
    LET r == first_href(page.website, 1)
    IN  IF r.st = "raised" THEN None
        ELSE SetItem(data, "website", IF r.st = "found" THEN r.val ELSE NA)

\* extract_reviews with the summary built even when both values are unknown
extract_reviews_always_summary(page, data) ==
    LET r == first_rating(page.rating, 1)
        c == first_count(page.review_css, 1)
        rating == IF r.st = "found" THEN r.val ELSE NA
        review_count == IF c.st = "found" THEN c.val ELSE xpath_count(page.review_xpath)
    IN  IF r.st = "raised" \/ c.st = "raised"
        THEN SetItem(SetItem(SetItem(data, "rating", NA), "review_count", NA),
                     "reviews", NA)
        ELSE SetItem(SetItem(SetItem(data, "rating", rating),
                             "review_count", review_count),
                     "reviews", rating \o Stars \o review_count \o Reviews)

\* Lines 457-531: rating, review_count and the reviews summary. An exception
\* inside the block sets all three to 'N/A'.
extract_reviews(page, data) ==
    LET r == first_rating(page.rating, 1)
        c == first_count(page.review_css, 1)
        rating == IF r.st = "found" THEN r.val ELSE NA
        review_count == IF c.st = "found" THEN c.val ELSE xpath_count(page.review_xpath)
    IN  IF r.st = "raised" \/ c.st = "raised"
        THEN SetItem(SetItem(SetItem(data, "rating", NA), "review_count", NA),
                     "reviews", NA)
        ELSE SetItem(SetItem(SetItem(data, "rating", rating),
                             "review_count", review_count),
                     "reviews",
                     IF rating # NA \/ review_count # NA
                     THEN rating \o Stars \o review_count \o Reviews
                     ELSE NA)

\* Lines 533-540: photo_count; page.photos is the number of elements found,
\* or -1 when find_elements raises
extract_photos(page, data) ==
    SetItem(data, "photo_count", IF page.photos >= 0 THEN str(page.photos) ELSE <<"0">>)

\* Lines 542-547: location_link
extract_link(page, data) ==
    IF page.url.kind # "element" THEN None
    ELSE SetItem(data, "location_link", page.url.text)

\* extract_business_info: the dict built field by field, None as soon as a
\* step raises outside the reviews block (lines 549-551)
extract_business_info(page) ==
    LET d1 == extract_name(page, EmptyDict)
        d2 == IF d1 = None THEN None ELSE extract_address(page, d1)
        d3 == IF d2 = None THEN None ELSE extract_phone(page, d2)
        d4 == IF d3 = None THEN None ELSE extract_website(page, d3)
        d5 == IF d4 = None THEN None ELSE extract_photos(page, extract_reviews(page, d4))
    IN  IF d5 = None THEN None ELSE extract_link(page, d5)

\* ---------------------------------------------------------------------
\* Deduplicator (improved_scraper.py, _process_single_result lines 203-217)
\* ---------------------------------------------------------------------

\* dict.get(k, default)
Get(d, k, default) == IF k \in DOMAIN d THEN d[k] ELSE default

\* Lines 205-206: the record tagged with the task's query and area
tag(data, query, area) ==
    SetItem(SetItem(data, "search_query", query), "search_area", area)

\* A deduplicator keyed on the name alone
identifier_name_only(data) == <<Get(data, "name", <<>>)>>

\* Lines 207-210: the identifier of a record
identifier(data) == <<Get(data, "name", <<>>), Get(data, "full_address", <<>>)>>

\* __init__, lines 24-25
ScraperInit ==
    /\ results = <<>>
    /\ seen_identifiers = {}

\* The variables of the other specifications, at rest
ParseIdle ==
    /\ address = <<>>
    /\ parts = None

ExtractIdle ==
    /\ view = None
    /\ info = None
    /\ called = FALSE

RunnerIdle ==
    /\ config = None
    /\ rpc = "idle"
    /\ exit_code = None
    /\ session = "none"
    /\ coro = <<>>
    /\ initial_count = <<>>
    /\ progress = None
    /\ written = None
    /\ pc = <<>>
    /\ attempt = <<>>
    /\ processed = <<>>
    /\ consecutive_failures = <<>>
    /\ business_data = <<>>
    /\ outcome = <<>>
    /\ tiles = 0

ScrollIdle ==
    /\ max_to_load = 0
    /\ count = 0
    /\ prev_count = 0
    /\ stagnant_rounds = 0
    /\ scroll_at = "idle"

DedupeIdle ==
    /\ queries_left = 0
    /\ scrape_at = "idle"
    /\ q_records = <<>>
    /\ all_records = <<>>
    /\ captured = <<>>
    /\ clean = <<>>

\* ---------------------------------------------------------------------
\* Specification SpecParse: parse_address applied to bounded addresses
\* ---------------------------------------------------------------------

\* Pieces the street part of an address is built from
Segments ==
    { <<"1", "2", "3", "4", "5">>, <<"7">>, <<"O", "a", "k">>, <<"D", "C">>,
      <<",">>, <<" ">>, <<"-">>, <<"6", "7", "8", "9">> }

\* Endings of an address: none, state + ZIP, state + ZIP+4 and near misses
Suffixes ==
    { <<>>,
      <<",", " ", "D", "C", " ", "2", "0", "0", "0", "1">>,
      <<",", " ", "D", "C", " ", "2", "0", "0", "0", "1", "-", "1", "2", "3", "4">>,
      <<",", " ", "V", "A", " ", "2", "2", "0", "3", "0", " ">>,
      <<",", "M", "D", "2", "0", "8", "1", "4">>,
      <<" ", "D", "C", " ", "2", "0", "0", "0", "1">>,
      <<",", " ", "D", "c", " ", "2", "0", "0", "0", "1">>,
      <<",", " ", "D", "C", " ", "2", "0", "0", "0">>,
      <<",", " ", "D", "C", " ", "2", "0", "0", "0", "1", "-", "1", "2">> }

\* Largest number of segments in the street part
MaxPrefixSegs == 2

RECURSIVE Prefixes(_)
Prefixes(n) ==
    IF n = 0 THEN {<<>>}
    ELSE LET P == Prefixes(n - 1)
         IN  P \cup {p \o s : p \in P, s \in Segments}

Addresses == {p \o s : p \in Prefixes(MaxPrefixSegs), s \in Suffixes}

InitParse ==
    /\ address \in Addresses
    /\ parts = None
    /\ ExtractIdle
    /\ ScraperInit
    /\ RunnerIdle
    /\ ScrollIdle
    /\ DedupeIdle

\* One call parts = scraper.parse_address(address)
ParseAddress ==
    /\ parts = None
    /\ parts' = parse_address(address)
    /\ UNCHANGED <<address, extractVars, scraperVars, runnerVars, taskVars,
                   scrollVars, dedupeVars, tiles>>

NextParse == ParseAddress

SpecParse == InitParse /\ [][NextParse]_vars

\* ---------------------------------------------------------------------
\* Claims about the address parser
\* ---------------------------------------------------------------------

\* The address ends in ", ST ddddd-dddd"
EndsWithStateZip4(s) ==
    LET n == Len(s)
    IN  /\ n >= 15
        /\ s[n - 14] = "," /\ s[n - 13] = " "
        /\ s[n - 12] \in Upper /\ s[n - 11] \in Upper
        /\ s[n - 10] = " "
        /\ AllDigits(s, n - 9, 5)
        /\ s[n - 4] = "-"
        /\ AllDigits(s, n - 3, 4)

\* The address ends in ", XX 99999"
EndsWithStateZip5(s) ==
    LET n == Len(s)
    IN  /\ n >= 10
        /\ s[n - 9] = "," /\ s[n - 8] = " "
        /\ s[n - 7] \in Upper /\ s[n - 6] \in Upper
        /\ s[n - 5] = " "
        /\ AllDigits(s, n - 4, 5)

\* A postal code token starts at index i: five digits standing as a word
ZipTokenAt(s, i) ==
    /\ AllDigits(s, i, 5)
    /\ (i = 1 \/ s[i - 1] \notin WordChar)
    /\ (i + 5 > Len(s) \/ s[i + 5] \notin WordChar)

HasPostalToken(s) == \E i \in 1..Len(s) : ZipTokenAt(s, i)

\* C2: for every address ending in ", ST ddddd-dddd", parse_address returns
\* the first five digits of the ZIP as postal_code (without "-dddd") and the
\* address without that suffix, trimmed, as street.
C2_ZipPlus4Truncated ==
    (parts # None /\ EndsWithStateZip4(address)) =>
        /\ parts.postal_code = SubSeq(address, Len(address) - 9, Len(address) - 5)
        /\ parts.street = strip(SubSeq(address, 1, Len(address) - 15))

\* C3: for every address ending in ", XX 99999", whatever precedes it,
\* parse_address returns that trailing ZIP as postal_code and the address
\* without the suffix, trimmed, as street.
C3_TrailingStateZip ==
    (parts # None /\ EndsWithStateZip5(address)) =>
        /\ parts.postal_code = SubSeq(address, Len(address) - 4, Len(address))
        /\ parts.street = strip(SubSeq(address, 1, Len(address) - 10))

\* C4: for every address without a postal code token, parse_address returns
\* postal_code 'N/A' and the input itself, untrimmed, as street.
C4_NoPostalToken ==
    (parts # None /\ ~HasPostalToken(address)) =>
        parts = [postal_code |-> NA, street |-> address]

\* C4 witness: an address without a token, with blanks at its ends, parsed
C4_Witness ==
    /\ parts # None
    /\ ~HasPostalToken(address)
    /\ address # <<>>
    /\ strip(address) # address
    /\ \E i \in 1..Len(address) : address[i] \in Digit

\* ---------------------------------------------------------------------
\* Specification SpecExtract: one detail view extracted and registered
\* ---------------------------------------------------------------------

Ace == <<"A", "c", "e">>

Bob == <<"B", "o", "b">>

OakDC == <<"1", " ", "O", "a", "k", ",", " ", "D", "C", " ", "2", "0", "0", "0", "1">>

ElmVA == <<"9", " ", "E", "l", "m", ",", " ", "V", "A", " ", "2", "2", "0", "3", "0",
           "-", "1", "2", "3", "4">>

OakOnly == <<"2", " ", "O", "a", "k">>

Phone555 == <<"5", "5", "5", "-", "0", "1", "0", "0">>

SiteUrl == <<"h", "t", "t", "p", ":", "/", "/", "a", "c", "e", ".", "c", "o", "m">>

GoogleUrl == <<"h", "t", "t", "p", ":", "/", "/", "g", "o", "o", "g", "l", "e", ".",
               "c", "o", "m", "/", "x">>

PlaceUrl == <<"m", "a", "p", "s", "/", "p", "l", "a", "c", "e", "/", "1">>

Queries == { <<"r", "a", "n", "g", "e", "s">>, <<"c", "l", "u", "b", "s">> }

Areas == { <<"D", "C">>, <<"M", "D">> }

\* Outcomes of the three name selectors
NameOptions ==
    { <<Text(Ace), NoSuchElement, NoSuchElement>>,
      <<NoSuchElement, Text(<<" ">> \o Bob \o <<" ">>), NoSuchElement>>,
      <<Text(<<>>), NoSuchElement, Text(Ace)>>,
      <<NoSuchElement, NoSuchElement, NoSuchElement>>,
      <<NoSuchElement, DriverError, Text(Ace)>> }

\* driver.title
TitleOptions ==
    { Text(Bob \o TitleSuffix), Text(<<"G", "o", "o", "g", "l", "e">>) }

\* Outcomes of the four address selectors
AddressOptions ==
    { <<NoSuchElement, NoSuchElement, NoSuchElement, NoSuchElement>>,
      <<Text(OakDC), NoSuchElement, NoSuchElement, NoSuchElement>>,
      <<NoSuchElement, Text(<<" ">> \o OakOnly), NoSuchElement, NoSuchElement>>,
      <<Text(<<>>), NoSuchElement, NoSuchElement, Text(ElmVA)>> }

\* Outcomes of the three phone selectors
PhoneOptions ==
    { <<NoSuchElement, NoSuchElement, NoSuchElement>>,
      <<NoSuchElement, NoSuchElement, Text(Phone555)>> }

\* Outcomes of the four website selectors
WebsiteOptions ==
    { <<NoSuchElement, NoSuchElement, NoSuchElement, NoSuchElement>>,
      <<Element(<<>>, NoAttr, Attr(SiteUrl)), NoSuchElement, NoSuchElement, NoSuchElement>>,
      <<Element(<<>>, NoAttr, Attr(GoogleUrl)), Element(<<>>, NoAttr, NoAttr),
        NoSuchElement, Element(<<>>, NoAttr, Attr(SiteUrl))>> }

\* Outcomes of the three rating selectors
RatingOptions ==
    { <<NoSuchElement, NoSuchElement, NoSuchElement>>,
      <<Text(<<"4", ".", "5">>), NoSuchElement, NoSuchElement>>,
      <<Text(<<"n", "e", "w">>),
        Element(<<>>, Attr(<<"4", ".", "5", " ", "s", "t", "a", "r", "s">>), NoAttr),
        NoSuchElement>>,
      <<NoSuchElement, DriverError, NoSuchElement>> }

\* Outcomes of the two review count CSS selectors
ReviewCssOptions ==
    { <<NoSuchElement, NoSuchElement>>,
      <<Text(<<"(", "1", ",", "2", "3", "4", ")">>), NoSuchElement>>,
      <<Text(<<"n", "e", "w">>), Text(<<"1", "2", " ", "r", "e", "v", "i", "e", "w", "s">>)>> }

\* Outcome of the review count XPath lookup
ReviewXpathOptions ==
    { NoSuchElement, Text(<<"1", "2", "3", "4", " ", "r", "e", "v", "i", "e", "w", "s">>) }

\* len(find_elements('[data-photo-index]')), -1 when the lookup raises
PhotoOptions == {-1, 0, 12}

\* driver.current_url
UrlOptions == { Text(PlaceUrl), DriverError }

Pages ==
    [ name : NameOptions, title : TitleOptions, address : AddressOptions,
      phone : PhoneOptions, website : WebsiteOptions, rating : RatingOptions,
      review_css : ReviewCssOptions, review_xpath : ReviewXpathOptions,
      photos : PhotoOptions, url : UrlOptions ]

InitExtract ==
    /\ view \in Pages
    /\ info = None
    /\ called = FALSE
    /\ ParseIdle
    /\ ScraperInit
    /\ RunnerIdle
    /\ ScrollIdle
    /\ DedupeIdle

\* Line 203: business_data = self.extract_business_info()
ExtractInfo ==
    /\ ~called
    /\ called' = TRUE
    /\ info' = extract_business_info(view)
    /\ UNCHANGED <<view, parseVars, scraperVars, runnerVars, taskVars, scrollVars,
                   dedupeVars, tiles>>

\* Lines 204-217 run by a single task: tag, check the identifier, register
RegisterInfo ==
    /\ called
    /\ info # None
    /\ results = <<>>
    /\ \E query \in Queries, area \in Areas :
          LET data == tag(info, query, area)
          IN  IF identifier(data) \notin seen_identifiers
              THEN /\ seen_identifiers' = seen_identifiers \cup {identifier(data)}
                   /\ results' = Append(results, data)
              ELSE UNCHANGED scraperVars
    /\ UNCHANGED <<extractVars, parseVars, runnerVars, taskVars, scrollVars,
                   dedupeVars, tiles>>

NextExtract == ExtractInfo \/ RegisterInfo

SpecExtract == InitExtract /\ [][NextExtract]_vars

\* ---------------------------------------------------------------------
\* Claims about the field extractor
\* ---------------------------------------------------------------------

OutputFields ==
    { "name", "website", "phone", "full_address", "street", "postal_code",
      "reviews", "rating", "review_count", "photo_count", "location_link",
      "search_query", "search_area" }

\* Every lookup of a selector list finds no element
NothingFound(outs) == \A i \in 1..Len(outs) : outs[i] = NoSuchElement

\* The heading resolves: some name selector yields non-blank text and the
\* selectors before it find no element
HeadingAt(doc, i) ==
    /\ doc.name[i].kind = "element"
    /\ strip(doc.name[i].text) # <<>>
    /\ \A j \in 1..(i - 1) : doc.name[j] = NoSuchElement

\* Neither a heading nor a usable page title gives the name
NameUnknown(doc) ==
    /\ NothingFound(doc.name)
    /\ doc.title.kind = "element"
    /\ FindSub(doc.title.text, TitleSuffix) = 0

\* The record has every output field, each a string
WellFormed(rec) ==
    /\ DOMAIN rec = OutputFields
    /\ \A f \in OutputFields : rec[f] \in Seq(Char)

\* The fields whose lookups found nothing hold 'N/A' (name apart)
SentinelsSet(doc, rec) ==
    /\ NothingFound(doc.address) =>
          rec.full_address = NA /\ rec.street = NA /\ rec.postal_code = NA
    /\ NothingFound(doc.phone) => rec.phone = NA
    /\ NothingFound(doc.website) => rec.website = NA
    /\ NothingFound(doc.rating) => rec.rating = NA
    /\ (NothingFound(doc.review_css) /\ doc.review_xpath = NoSuchElement) =>
          rec.review_count = NA

\* C7 as stated: every record of results has the 13 output fields, each a
\* string, with 'N/A' for every field whose value is unknown.
C7_AllFieldsNA ==
    \A i \in 1..Len(results) :
        /\ WellFormed(results[i])
        /\ SentinelsSet(view, results[i])
        /\ NameUnknown(view) => results[i].name = NA
        /\ view.photos < 0 => results[i].photo_count = NA

\* C7 amended: every record of results has the 13 output fields, each a
\* string; address, phone, website, rating and review count hold 'N/A' when
\* their lookups find nothing, while an unknown name is 'Unknown' and a
\* photo count that cannot be read is '0'.
C7_AllFieldsPresent ==
    \A i \in 1..Len(results) :
        /\ WellFormed(results[i])
        /\ SentinelsSet(view, results[i])
        /\ NameUnknown(view) => results[i].name = Unknown
        /\ view.photos < 0 => results[i].photo_count = <<"0">>

\* C7 witness: a registered record with an unknown name, no phone, a parsed
\* postal code and an unreadable photo count
C7_Witness ==
    /\ Len(results) = 1
    /\ NameUnknown(view)
    /\ NothingFound(view.phone)
    /\ view.photos < 0
    /\ results[1].postal_code \notin {NA, <<>>}
    /\ results[1].rating # NA

\* Only the heading resolves: no element for address, phone, website, rating
\* and review count, no photo element, and the current URL can be read
HeadingOnly(doc) ==
    /\ \E i \in 1..Len(doc.name) : HeadingAt(doc, i)
    /\ NothingFound(doc.address)
    /\ NothingFound(doc.phone)
    /\ NothingFound(doc.website)
    /\ NothingFound(doc.rating)
    /\ NothingFound(doc.review_css)
    /\ doc.review_xpath = NoSuchElement
    /\ doc.photos <= 0
    /\ doc.url.kind = "element"

HeadingText(doc) ==
    strip(doc.name[CHOOSE i \in 1..Len(doc.name) : HeadingAt(doc, i)].text)

\* The fields both readings of C8 agree on
HeadingOnlyRecord(doc, rec) ==
    /\ rec # None
    /\ rec.name = HeadingText(doc)
    /\ \A f \in {"full_address", "street", "postal_code", "phone", "website",
                 "rating", "review_count", "reviews"} : rec[f] = NA

\* C8 as stated: on a view where only the heading resolves the record has
\* the heading text as name and 'N/A' in every other extracted field.
C8_HeadingOnlyAllNA ==
    (called /\ HeadingOnly(view)) =>
        /\ HeadingOnlyRecord(view, info)
        /\ info.photo_count = NA
        /\ info.location_link = NA

\* C8 amended: on such a view the record has the heading text as name,
\* 'N/A' in full_address, street, postal_code, phone, website, rating,
\* review_count and reviews, '0' as photo_count and the current URL as
\* location_link.
C8_HeadingOnly ==
    (called /\ HeadingOnly(view)) =>
        /\ HeadingOnlyRecord(view, info)
        /\ info.photo_count = <<"0">>
        /\ info.location_link = view.url.text

\* C8 witness: such a view extracted, the heading found by the second selector
C8_Witness ==
    /\ called
    /\ HeadingOnly(view)
    /\ view.name[1] = NoSuchElement
    /\ info # None

\* What the loop of a field accepts from one lookup: non-blank text (name,
\* address, phone), a link that is set and leaves google.com (website), a
\* number as text or in the aria-label (rating), text with a number (count)
Accepted(field, el) ==
    /\ el.kind = "element"
    /\ CASE field \in {"name", "address", "phone"} -> strip(el.text) # <<>>
         [] field = "website" ->
               /\ el.href.set
               /\ el.href.val # <<>>
               /\ FindSub(el.href.val, GoogleCom) = 0
         [] field = "rating" ->
               \/ /\ strip(el.text) # <<>>
                  /\ isdigit(remove_char(remove_char(strip(el.text), "."), ","))
               \/ /\ el.aria_label.set
                  /\ search_rating(el.aria_label.val).matched
         [] field = "review_css" -> search_count(strip(el.text)).matched

\* The value a field takes from an accepted lookup
ValueOf(field, el) ==
    CASE field \in {"name", "address", "phone"} -> strip(el.text)
      [] field = "website" -> el.href.val
      [] field = "rating" ->
            IF /\ strip(el.text) # <<>>
               /\ isdigit(remove_char(remove_char(strip(el.text), "."), ","))
            THEN strip(el.text)
            ELSE search_rating(el.aria_label.val).group1
      [] field = "review_css" -> search_count(strip(el.text)).group1

\* The value of the first lookup of the field, in the listed order, that is
\* accepted; the default when none is
FirstValue(doc, field, default) ==
    LET outs == doc[field]
        hits == {i \in 1..Len(outs) : Accepted(field, outs[i])}
    IN  IF hits = {} THEN default
        ELSE ValueOf(field, outs[CHOOSE i \in hits : \A j \in hits : i <= j])

\* No lookup of the list fails with an error of the driver
NoError(outs) == \A i \in 1..Len(outs) : outs[i] # DriverError

\* No lookup outside the reviews block fails with an error of the driver
NoDriverError(doc) ==
    /\ \A f \in {"name", "address", "phone", "website"} : NoError(doc[f])
    /\ doc.title.kind = "element"
    /\ doc.url.kind = "element"

\* The name the page title gives when no heading does
TitleName(doc) ==
    IF FindSub(doc.title.text, TitleSuffix) # 0
    THEN strip(SubSeq(doc.title.text, 1, FindSub(doc.title.text, TitleSuffix) - 1))
    ELSE Unknown

StarsOnly == <<" ", "s", "t", "a", "r", "s">>

\* The summary built from the values that are known
SummaryOf(rating, review_count) ==
    IF rating # NA /\ review_count # NA
    THEN rating \o StarsOnly \o <<" ", "(">> \o review_count \o Reviews
    ELSE IF rating # NA THEN rating \o StarsOnly
    ELSE IF review_count # NA THEN <<"(">> \o review_count \o Reviews
    ELSE NA

\* C26: the reviews summary of a record is '<rating> stars (<count>
\* reviews)' when both values are known, '<rating> stars' with the rating
\* alone, '(<count> reviews)' with the count alone and 'N/A' with neither,
\* and a summary other than 'N/A' does not contain 'N/A'
C26_SummaryFromKnownValues ==
    (called /\ info # None) =>
        /\ info.reviews = SummaryOf(info.rating, info.review_count)
        /\ info.reviews # NA => FindSub(info.reviews, NA) = 0

\* ---------------------------------------------------------------------
\* Specification Spec: a batch run of run_enhanced_scraper. Every task
\* runs search_locations of the one shared scraper in a pool thread.
\* ---------------------------------------------------------------------

\* max_results_per_search of the configurations
MaxResults == 1

\* Largest number of tiles the result list shows
MaxTiles == 6

\* max_retries of search_locations
max_retries == 3

\* max_failures of _perform_search
max_failures == 5

Ranges == <<"r", "a", "n", "g", "e", "s">>

Clubs == <<"c", "l", "u", "b", "s">>

DC == <<"D", "C">>

MD == <<"M", "D">>

\* max_results_per_search of the run of a single search
LoopResults == 6

OutCsv == <<"o", ".", "c", "s", "v">>

\* ScraperConfig with the defaults of lines 54-75, the result cap and the
\* lists of queries and locations set by the run
DefaultConfig ==
    [max_results_per_search |-> MaxResults, query |-> Ranges, location |-> DC,
     output_filename |-> OutCsv, output_format |-> "csv",
     max_concurrent_searches |-> 1, delay_between_searches |-> 2,
     timeout_per_search |-> 300, queries |-> <<>>, locations |-> <<DC>>,
     max_retries |-> 3, retry_delay |-> 5]

\* The configurations that pass validate: the single query of the command
\* line in two areas, one search at a time and saved as CSV; two queries in
\* one area, two at a time and saved as JSON; and one search that may open
\* up to LoopResults tiles
ValidConfigs ==
    { [DefaultConfig EXCEPT !.locations = <<DC, MD>>],
      [DefaultConfig EXCEPT !.queries = <<Ranges, Clubs>>,
                            !.max_concurrent_searches = 2,
                            !.output_format = "json"],
      [DefaultConfig EXCEPT !.max_results_per_search = LoopResults] }

\* One configuration for each rule of validate
InvalidConfigs ==
    { [DefaultConfig EXCEPT !.max_results_per_search = 0],
      [DefaultConfig EXCEPT !.max_results_per_search = 101],
      [DefaultConfig EXCEPT !.query = <<" ">>, !.queries = <<>>],
      [DefaultConfig EXCEPT !.location = <<>>, !.locations = <<>>],
      [DefaultConfig EXCEPT !.output_filename = <<" ">>],
      [DefaultConfig EXCEPT !.output_format = "xml"],
      [DefaultConfig EXCEPT !.max_concurrent_searches = 0],
      [DefaultConfig EXCEPT !.max_concurrent_searches = 6],
      [DefaultConfig EXCEPT !.delay_between_searches = -1],
      [DefaultConfig EXCEPT !.timeout_per_search = 29],
      [DefaultConfig EXCEPT !.max_retries = -1],
      [DefaultConfig EXCEPT !.retry_delay = -1] }

Configs == ValidConfigs \cup InvalidConfigs

\* errors.append(message) under its condition
append_if(condition, message) == IF condition THEN <<message>> ELSE <<>>

\* A validate that accepts every output_format
validate_any_format(c) ==
    append_if(c.max_results_per_search <= 0,
                 "max_results_per_search must be positive")
    \o append_if(c.max_results_per_search > 100,
                 "max_results_per_search should not exceed 100 for stability")
    \o append_if(strip(c.query) = <<>> /\ c.queries = <<>>,
                 "Either 'query' or 'queries' must be provided")
    \o append_if(strip(c.location) = <<>> /\ c.locations = <<>>,
                 "Either 'location' or 'locations' must be provided")
    \o append_if(strip(c.output_filename) = <<>>,
                 "Output filename cannot be empty")
    \o append_if(c.max_concurrent_searches < 1,
                 "max_concurrent_searches must be at least 1")
    \o append_if(c.max_concurrent_searches > 5,
                 "max_concurrent_searches should not exceed 5 to avoid rate limiting")
    \o append_if(c.delay_between_searches < 0,
                 "delay_between_searches cannot be negative")
    \o append_if(c.timeout_per_search < 30,
                 "timeout_per_search should be at least 30 seconds")
    \o append_if(c.max_retries < 0,
                 "max_retries cannot be negative")
    \o append_if(c.retry_delay < 0,
                 "retry_delay cannot be negative")

\* ScraperConfig.validate, lines 88-137: the list of error messages
validate(c) ==
    append_if(c.max_results_per_search <= 0,
                 "max_results_per_search must be positive")
    \o append_if(c.max_results_per_search > 100,
                 "max_results_per_search should not exceed 100 for stability")
    \o append_if(strip(c.query) = <<>> /\ c.queries = <<>>,
                 "Either 'query' or 'queries' must be provided")
    \o append_if(strip(c.location) = <<>> /\ c.locations = <<>>,
                 "Either 'location' or 'locations' must be provided")
    \o append_if(strip(c.output_filename) = <<>>,
                 "Output filename cannot be empty")
    \o append_if(c.output_format \notin {"csv", "json", "excel"},
                 "output_format must be one of: csv, json, excel")
    \o append_if(c.max_concurrent_searches < 1,
                 "max_concurrent_searches must be at least 1")
    \o append_if(c.max_concurrent_searches > 5,
                 "max_concurrent_searches should not exceed 5 to avoid rate limiting")
    \o append_if(c.delay_between_searches < 0,
                 "delay_between_searches cannot be negative")
    \o append_if(c.timeout_per_search < 30,
                 "timeout_per_search should be at least 30 seconds")
    \o append_if(c.max_retries < 0,
                 "max_retries cannot be negative")
    \o append_if(c.retry_delay < 0,
                 "retry_delay cannot be negative")

\* Lines 392-394: [(q, l) for q in queries for l in locations]
search_combinations(c) ==
    LET queries == IF c.queries # <<>> THEN c.queries ELSE <<c.query>>
        locations == IF c.locations # <<>> THEN c.locations ELSE <<c.location>>
        nl == Len(locations)
    IN  [k \in 1..(Len(queries) * nl) |->
            [query |-> queries[((k - 1) \div nl) + 1],
             location |-> locations[((k - 1) % nl) + 1]]]

Tasks == 1..Len(search_combinations(config))

\* The detail views the result tiles of the runs open
AcePage ==
    [ name |-> <<Text(Ace), NoSuchElement, NoSuchElement>>,
      title |-> Text(Ace \o TitleSuffix),
      address |-> <<Text(OakDC), NoSuchElement, NoSuchElement, NoSuchElement>>,
      phone |-> <<NoSuchElement, NoSuchElement, Text(Phone555)>>,
      website |-> <<NoSuchElement, NoSuchElement, NoSuchElement, NoSuchElement>>,
      rating |-> <<Text(<<"4", ".", "5">>), NoSuchElement, NoSuchElement>>,
      review_css |-> <<NoSuchElement, NoSuchElement>>,
      review_xpath |-> NoSuchElement,
      photos |-> 0,
      url |-> Text(PlaceUrl) ]

\* Same name at another address
AceOtherPage ==
    [AcePage EXCEPT !.address =
        <<NoSuchElement, Text(OakOnly), NoSuchElement, NoSuchElement>>]

\* A view on which extract_business_info raises and returns None
BrokenPage == [AcePage EXCEPT !.url = DriverError]

MainPages == {AcePage, AceOtherPage, BrokenPage}

\* Line 203 on each of these views
extracted == [doc \in MainPages |-> extract_business_info(doc)]

\* ProgressReporter.__init__ and start_tracking, lines 179-191
ProgressInit(total) ==
    [searches_completed |-> 0, total_searches |-> total,
     results_collected |-> 0, errors_encountered |-> 0]

\* A reporter that counts a search only when it brought no error
update_progress_skips_errors(p, results_count, error) ==
    [p EXCEPT !.searches_completed = IF error THEN @ ELSE @ + 1,
              !.results_collected = @ + results_count,
              !.errors_encountered = IF error THEN @ + 1 ELSE @]

\* ProgressReporter.update_progress, lines 193-198
update_progress(p, results_count, error) ==
    [p EXCEPT !.searches_completed = @ + 1,
              !.results_collected = @ + results_count,
              !.errors_encountered = IF error THEN @ + 1 ELSE @]

Init ==
    /\ config \in Configs
    /\ rpc = "new"
    /\ exit_code = None
    /\ session = "none"
    /\ coro = [t \in Tasks |-> "pending"]
    /\ initial_count = [t \in Tasks |-> 0]
    /\ progress = ProgressInit(Len(search_combinations(config)))
    /\ pc = [t \in Tasks |-> "idle"]
    /\ attempt = [t \in Tasks |-> 0]
    /\ processed = [t \in Tasks |-> 0]
    /\ consecutive_failures = [t \in Tasks |-> 0]
    /\ business_data = [t \in Tasks |-> None]
    /\ outcome = [t \in Tasks |-> "none"]
    /\ written = None
    /\ tiles = 0
    /\ ScrollIdle
    /\ DedupeIdle
    /\ ScraperInit
    /\ ParseIdle
    /\ ExtractIdle

\* ------------------------- the batch runner --------------------------

\* Lines 381-386: an invalid configuration ends the run with CONFIG_ERROR
ValidateConfig ==
    /\ rpc = "new"
    /\ IF validate(config) # <<>>
       THEN /\ rpc' = "returned"
            /\ exit_code' = "CONFIG_ERROR"
       ELSE /\ rpc' = "start"
            /\ UNCHANGED exit_code
    /\ UNCHANGED <<config, written, session, coro, initial_count, progress, taskVars,
                   scraperVars, parseVars, extractVars, scrollVars, dedupeVars, tiles>>

\* Lines 399 and 267-288: the scraper session is created, or its creation
\* fails and the run returns SCRAPING_ERROR
OpenSession ==
    /\ rpc = "start"
    /\ \/ /\ session' = "open"
          /\ rpc' = "running"
          /\ UNCHANGED exit_code
       \/ /\ rpc' = "returned"
          /\ exit_code' = "SCRAPING_ERROR"
          /\ UNCHANGED session
    /\ UNCHANGED <<config, written, coro, initial_count, progress, taskVars, scraperVars,
                   parseVars, extractVars, scrollVars, dedupeVars, tiles>>

\* perform_search_with_timeout up to its await, lines 303-311:
\* initial_count is read and search_locations is handed to a pool thread
begin_search(t) ==
    /\ coro' = [coro EXCEPT ![t] = "running"]
    /\ initial_count' = [initial_count EXCEPT ![t] = Len(results)]
    /\ pc' = [pc EXCEPT ![t] = "perform"]
    /\ UNCHANGED <<config, written, rpc, exit_code, session, progress, attempt,
                   processed, consecutive_failures, business_data, outcome,
                   scraperVars, parseVars, extractVars, scrollVars, dedupeVars, tiles>>

\* The thread of task t has returned and the coroutine resumes: lines
\* 313-314 and 320-323, then update_progress at 414 or 437
finish_search(t) ==
    /\ coro[t] = "running"
    /\ pc[t] = "done"
    /\ coro' = [coro EXCEPT ![t] = "finished"]
    /\ progress' =
          IF outcome[t] = "raised"
          THEN update_progress(progress, 0, TRUE)
          ELSE update_progress(progress, Len(results) - initial_count[t], FALSE)
    /\ UNCHANGED <<config, written, rpc, exit_code, session, initial_count, taskVars,
                   scraperVars, parseVars, extractVars, scrollVars, dedupeVars, tiles>>

\* A runner in which a task's timeout ends the whole batch
timeout_search_aborts(t) ==
    /\ coro[t] = "running"
    /\ pc[t] # "done"
    /\ coro' = [coro EXCEPT ![t] = "finished"]
    /\ progress' = update_progress(progress, 0, TRUE)
    /\ rpc' = "check"
    /\ UNCHANGED <<config, written, exit_code, session, initial_count, taskVars,
                   scraperVars, parseVars, extractVars, scrollVars, dedupeVars, tiles>>

\* asyncio.wait_for gives up on task t after timeout_per_search: the
\* coroutine is cancelled, the thread goes on; update_progress(0, True) at
\* 421 or 444
timeout_search(t) ==
    /\ coro[t] = "running"
    /\ pc[t] # "done"
    /\ coro' = [coro EXCEPT ![t] = "finished"]
    /\ progress' = update_progress(progress, 0, TRUE)
    /\ UNCHANGED <<config, written, rpc, exit_code, session, initial_count, taskVars,
                   scraperVars, parseVars, extractVars, scrollVars, dedupeVars, tiles>>

\* Lines 403-424, sequential mode: the for loop starts the next combination
\* once the one before it has been dealt with
SeqStart(t) ==
    /\ rpc = "running"
    /\ config.max_concurrent_searches = 1
    /\ coro[t] = "pending"
    /\ \A u \in Tasks : u < t => coro[u] = "finished"
    /\ begin_search(t)

SeqFinish(t) ==
    /\ rpc = "running"
    /\ config.max_concurrent_searches = 1
    /\ finish_search(t)

SeqTimeout(t) ==
    /\ rpc = "running"
    /\ config.max_concurrent_searches = 1
    /\ timeout_search(t)

\* Lines 426-450, concurrent mode: bounded_search enters the semaphore, in
\* the order gather created the tasks
ConcStart(t) ==
    /\ rpc = "running"
    /\ config.max_concurrent_searches # 1
    /\ coro[t] = "pending"
    /\ \A u \in Tasks : u < t => coro[u] # "pending"
    /\ Cardinality({u \in Tasks : coro[u] = "running"}) < config.max_concurrent_searches
    /\ begin_search(t)

ConcFinish(t) ==
    /\ rpc = "running"
    /\ config.max_concurrent_searches # 1
    /\ finish_search(t)

ConcTimeout(t) ==
    /\ rpc = "running"
    /\ config.max_concurrent_searches # 1
    /\ timeout_search(t)

\* The for loop, or gather, is over
BatchDone ==
    /\ rpc = "running"
    /\ \A t \in Tasks : coro[t] = "finished"
    /\ rpc' = "check"
    /\ UNCHANGED <<config, written, exit_code, session, coro, initial_count, progress,
                   taskVars, scraperVars, parseVars, extractVars, scrollVars,
                   dedupeVars, tiles>>

\* column_order of save_to_csv, lines 611-615
column_order ==
    <<"name", "website", "phone", "full_address", "street", "postal_code",
      "reviews", "rating", "review_count", "photo_count", "location_link",
      "search_query", "search_area">>

\* The columns of pd.DataFrame(rs): the keys of the records
frame_columns(rs) == UNION {DOMAIN rs[i] : i \in 1..Len(rs)}

\* The field of row i under col in the file: the record's value; empty for
\* the NaN of a key that other records have; 'N/A' in a column that lines
\* 617-619 had to add
csv_field(rs, i, col) ==
    IF col \in DOMAIN rs[i] THEN rs[i][col]
    ELSE IF col \in frame_columns(rs) THEN <<>>
    ELSE NA

\* A save_to_csv that writes the columns in the order of extraction
save_to_csv_as_extracted(rs) ==
    LET order == <<"name", "full_address", "street", "postal_code", "phone",
                   "website", "rating", "review_count", "reviews", "photo_count",
                   "location_link", "search_query", "search_area">>
    IN  [format |-> "csv", header |-> order,
         rows |-> [i \in 1..Len(rs) |->
                     [k \in 1..Len(order) |-> csv_field(rs, i, order[k])]]]

\* save_to_csv, lines 603-624: the file written, None when nothing is
save_to_csv(rs) ==
    IF rs = <<>> THEN None
    ELSE [format |-> "csv", header |-> column_order,
          rows |-> [i \in 1..Len(rs) |->
                      [k \in 1..Len(column_order) |->
                          csv_field(rs, i, column_order[k])]]]

\* Lines 334-349 of save_results_multiple_formats: the results file
results_file(rs, c) ==
    IF c.output_format = "csv" THEN save_to_csv(rs)
    ELSE [format |-> c.output_format, records |-> rs]

\* Lines 351-363: the summary file
summary_file(rs) ==
    [total_results |-> Len(rs),
     unique_businesses |->
        Cardinality({<<Get(rs[i], "name", <<>>), Get(rs[i], "full_address", <<>>)>> :
                        i \in 1..Len(rs)}),
     search_queries |-> {Get(rs[i], "search_query", <<>>) : i \in 1..Len(rs)},
     search_locations |-> {Get(rs[i], "search_area", <<>>) : i \in 1..Len(rs)}]

\* Lines 452-466: NO_RESULTS for an empty collection, else the results
\* file and the summary are written; an exception of either write gives
\* SAVE_ERROR
CheckResults ==
    /\ rpc = "check"
    /\ rpc' = "closing"
    /\ IF Len(results) = 0
       THEN /\ exit_code' = "NO_RESULTS"
            /\ UNCHANGED written
       ELSE \/ /\ exit_code' = "SUCCESS"
               /\ written' = [main |-> results_file(results, config),
                              summary |-> summary_file(results)]
            \/ /\ exit_code' = "SAVE_ERROR"
               /\ UNCHANGED written
            \/ /\ exit_code' = "SAVE_ERROR"
               /\ written' = [main |-> results_file(results, config),
                              summary |-> None]
    /\ UNCHANGED <<config, session, coro, initial_count, progress, taskVars,
                   scraperVars, parseVars, extractVars, scrollVars, dedupeVars, tiles>>

\* Lines 290-298: scraper.close() on leaving the with block, then the return
CloseSession ==
    /\ rpc = "closing"
    /\ rpc' = "returned"
    /\ session' = "closed"
    /\ UNCHANGED <<config, written, exit_code, coro, initial_count, progress, taskVars,
                   scraperVars, parseVars, extractVars, scrollVars, dedupeVars, tiles>>

\* Lines 516-523: SIGINT or SIGTERM arrives, the handler calls sys.exit
\* and SystemExit leaves the run through the finally of scraper_session
\* (lines 290-298), so the process exits with INTERRUPTED
Interrupt ==
    /\ rpc \in {"new", "start", "running", "check", "closing"}
    /\ rpc' = "exited"
    /\ exit_code' = "INTERRUPTED"
    /\ session' = IF session = "open" THEN "closed" ELSE session
    /\ UNCHANGED <<config, written, coro, initial_count, progress, taskVars,
                   scraperVars, parseVars, extractVars, scrollVars, dedupeVars, tiles>>

\* ---------------------- the search task threads ----------------------

\* The locals of the call of task t keep their values
locals_kept == UNCHANGED <<attempt, processed, consecutive_failures>>

\* search_locations returns (or raises) in the thread of task t, and the
\* locals of the call are gone
thread_ends(t, how) ==
    /\ pc' = [pc EXCEPT ![t] = "done"]
    /\ outcome' = [outcome EXCEPT ![t] = how]
    /\ attempt' = [attempt EXCEPT ![t] = 0]
    /\ processed' = [processed EXCEPT ![t] = 0]
    /\ consecutive_failures' = [consecutive_failures EXCEPT ![t] = 0]

\* A handler that restarts the driver after every failed attempt
driver_error_always_restarts(t) ==
    /\ pc' = [pc EXCEPT ![t] = "restart"]
    /\ locals_kept
    /\ UNCHANGED outcome

\* Lines 96-102: a WebDriverException leaves _perform_search. Before the
\* last attempt the driver is restarted; after the last attempt the call
\* gives up.
driver_error(t) ==
    IF attempt[t] < max_retries - 1
    THEN /\ pc' = [pc EXCEPT ![t] = "restart"]
         /\ locals_kept
         /\ UNCHANGED outcome
    ELSE thread_ends(t, "retries_exhausted")

\* A restart that builds the scraper anew, as __init__ does
RestartDriver_new_scraper(t) ==
    /\ pc[t] = "restart"
    /\ attempt' = [attempt EXCEPT ![t] = @ + 1]
    /\ pc' = [pc EXCEPT ![t] = "perform"]
    /\ results' = <<>>
    /\ seen_identifiers' = {}
    /\ UNCHANGED <<processed, consecutive_failures, outcome, business_data,
                   runnerVars, parseVars, extractVars, scrollVars, dedupeVars,
                   tiles>>

\* _restart_driver, lines 77-86, and the next turn of the for loop of
\* search_locations; _setup_driver may raise out of the handler
RestartDriver(t) ==
    /\ pc[t] = "restart"
    /\ \/ /\ attempt' = [attempt EXCEPT ![t] = @ + 1]
          /\ pc' = [pc EXCEPT ![t] = "perform"]
          /\ UNCHANGED <<processed, consecutive_failures, outcome>>
       \/ thread_ends(t, "raised")
    /\ UNCHANGED <<business_data, runnerVars, scraperVars, parseVars, extractVars,
                   scrollVars, dedupeVars, tiles>>

\* _process_single_result has returned (lines 157-168): the failure count
\* is reset or incremented, and processed += 1
result_processed(t, success) ==
    /\ consecutive_failures' =
          [consecutive_failures EXCEPT ![t] = IF success THEN 0 ELSE @ + 1]
    /\ processed' = [processed EXCEPT ![t] = @ + 1]
    /\ business_data' = [business_data EXCEPT ![t] = None]
    /\ pc' = [pc EXCEPT ![t] = "loop"]

\* Lines 106-129: the search page is loaded and the query typed. The search
\* box may not appear in time (return), the driver may fail (retry).
PerformSearch(t) ==
    /\ pc[t] = "perform"
    /\ \/ /\ pc' = [pc EXCEPT ![t] = "wait_results"]
          /\ locals_kept
          /\ UNCHANGED outcome
       \/ thread_ends(t, "no_search_input")
       \/ driver_error(t)
    /\ UNCHANGED <<business_data, runnerVars, scraperVars, parseVars, extractVars,
                   scrollVars, dedupeVars, tiles>>

\* A search that reports no results and goes on to the result loop
WaitForResults_goes_on(t) ==
    /\ pc[t] = "wait_results"
    /\ \/ /\ pc' = [pc EXCEPT ![t] = "scroll"]
          /\ UNCHANGED outcome
       \/ /\ pc' = [pc EXCEPT ![t] = "scroll"]
          /\ outcome' = [outcome EXCEPT ![t] = "no_results"]
    /\ locals_kept
    /\ UNCHANGED <<business_data, runnerVars, scraperVars, parseVars, extractVars,
                   scrollVars, dedupeVars, tiles>>

\* Lines 131-140: wait until the result list has a tile, or time out
WaitForResults(t) ==
    /\ pc[t] = "wait_results"
    /\ \/ /\ pc' = [pc EXCEPT ![t] = "scroll"]
          /\ locals_kept
          /\ UNCHANGED outcome
       \/ thread_ends(t, "no_results")
    /\ UNCHANGED <<business_data, runnerVars, scraperVars, parseVars, extractVars,
                   scrollVars, dedupeVars, tiles>>

\* Lines 142-148: scroll_results, then the counters of the loop are set
ScrollResults(t) ==
    /\ pc[t] = "scroll"
    /\ \/ /\ pc' = [pc EXCEPT ![t] = "loop"]
          /\ processed' = [processed EXCEPT ![t] = 0]
          /\ consecutive_failures' = [consecutive_failures EXCEPT ![t] = 0]
          /\ UNCHANGED <<attempt, outcome>>
       \/ driver_error(t)
    /\ UNCHANGED <<business_data, runnerVars, scraperVars, parseVars, extractVars,
                   scrollVars, dedupeVars, tiles>>

\* Line 150: the condition of the while loop
loop_goes_on(t) ==
    /\ processed[t] < config.max_results_per_search
    /\ consecutive_failures[t] < max_failures

\* A round that goes on to an entry whatever the length of the list
tiles_read_any_index(t, n) ==
    /\ pc' = [pc EXCEPT ![t] = "process"]
    /\ locals_kept
    /\ UNCHANGED outcome

\* Lines 151-153: the list is read again, n = len(tiles), and the loop is
\* left when it has no entry at index processed
tiles_read(t, n) ==
    IF processed[t] >= n
    THEN thread_ends(t, "completed")
    ELSE /\ pc' = [pc EXCEPT ![t] = "process"]
         /\ locals_kept
         /\ UNCHANGED outcome

\* The loop has come to its end, by the count of entries or by the failures
loop_left(t) ==
    thread_ends(t, IF consecutive_failures[t] >= max_failures
                   THEN "too_many_failures" ELSE "completed")

\* Lines 150-153 in a batch run
LoopTest(t) ==
    /\ pc[t] = "loop"
    /\ IF loop_goes_on(t)
       THEN \E n \in 0..MaxTiles : tiles_read(t, n)
       ELSE loop_left(t)
    /\ UNCHANGED <<business_data, runnerVars, scraperVars, parseVars, extractVars,
                   scrollVars, dedupeVars, tiles>>

\* Lines 172-206 and 219-221: the tile is opened and its detail view
\* extracted; a failure on the way, or no record, returns False
ProcessResult(t) ==
    /\ pc[t] = "process"
    /\ \/ result_processed(t, FALSE)
       \/ \E doc \in MainPages :
             LET data == extracted[doc]
                 task == search_combinations(config)[t]
             IN  IF data = None
                 THEN result_processed(t, FALSE)
                 ELSE /\ business_data' =
                            [business_data EXCEPT
                                ![t] = tag(data, task.query, task.location)]
                      /\ pc' = [pc EXCEPT ![t] = "check"]
                      /\ UNCHANGED <<processed, consecutive_failures>>
    /\ UNCHANGED <<attempt, outcome, runnerVars, scraperVars, parseVars,
                   extractVars, scrollVars, dedupeVars, tiles>>

\* Line 211: identifier not in self._seen_identifiers
CheckSeen(t) ==
    /\ pc[t] = "check"
    /\ IF identifier(business_data[t]) \notin seen_identifiers
       THEN /\ pc' = [pc EXCEPT ![t] = "add"]
            /\ UNCHANGED <<processed, consecutive_failures, business_data>>
       ELSE result_processed(t, FALSE)
    /\ UNCHANGED <<attempt, outcome, runnerVars, scraperVars, parseVars,
                   extractVars, scrollVars, dedupeVars, tiles>>

\* Line 212: self._seen_identifiers.add(identifier)
AddSeen(t) ==
    /\ pc[t] = "add"
    /\ seen_identifiers' = seen_identifiers \cup {identifier(business_data[t])}
    /\ pc' = [pc EXCEPT ![t] = "append"]
    /\ UNCHANGED <<results, attempt, processed, consecutive_failures, business_data,
                   outcome, runnerVars, parseVars, extractVars, scrollVars, dedupeVars, tiles>>

\* Lines 213-215: self.results.append(business_data); return True
AppendResult(t) ==
    /\ pc[t] = "append"
    /\ results' = Append(results, business_data[t])
    /\ result_processed(t, TRUE)
    /\ UNCHANGED <<seen_identifiers, attempt, outcome, runnerVars,
                   parseVars, extractVars, scrollVars, dedupeVars, tiles>>

Next ==
    \/ ValidateConfig
    \/ OpenSession
    \/ BatchDone
    \/ CheckResults
    \/ CloseSession
    \/ Interrupt
    \/ \E t \in Tasks :
          \/ SeqStart(t)
          \/ SeqFinish(t)
          \/ SeqTimeout(t)
          \/ ConcStart(t)
          \/ ConcFinish(t)
          \/ ConcTimeout(t)
          \/ PerformSearch(t)
          \/ RestartDriver(t)
          \/ WaitForResults(t)
          \/ ScrollResults(t)
          \/ LoopTest(t)
          \/ ProcessResult(t)
          \/ CheckSeen(t)
          \/ AddSeen(t)
          \/ AppendResult(t)

Spec == Init /\ [][Next]_vars

\* --------------------- deduplication across tasks ---------------------

Key(d) == <<d["name"], d["full_address"]>>

Positions == 1..Len(results)

\* C1: the result collection never holds two records with the same
\* (name, full_address), whatever the interleaving of the search tasks
C1_NoDuplicateRecords ==
    \A i, j \in Positions : i # j => Key(results[i]) # Key(results[j])

\* The record is in the collection, or a task that has put its identifier
\* into the set is about to append it
Registered(d) ==
    \/ \E i \in Positions : Key(results[i]) = Key(d)
    \/ \E u \in Tasks : pc[u] = "append" /\ Key(business_data[u]) = Key(d)

\* C5: a record is dropped only when a record with the same name and the
\* same full_address is already registered; any other record, one with a
\* registered name at another address included, is put into the identifier
\* set and appended as it is
C5_DroppedOnlyWhenBothEqual ==
    [][\A t \in Tasks :
          /\ (pc[t] = "check" /\ pc'[t] # "check") =>
                IF Registered(business_data[t])
                THEN pc'[t] = "loop" /\ UNCHANGED <<results, seen_identifiers>>
                ELSE pc'[t] = "add"
          /\ (pc[t] = "add" /\ pc'[t] # "add") =>
                /\ pc'[t] = "append"
                /\ Key(business_data[t]) \in seen_identifiers'
          /\ (pc[t] = "append" /\ pc'[t] # "append") =>
                results' = Append(results, business_data[t])]_vars

\* Two records of one name at two addresses are both in the collection
C5_Witness ==
    \E i, j \in Positions :
       /\ results[i]["name"] = results[j]["name"]
       /\ results[i]["full_address"] # results[j]["full_address"]

\* C6: an observation of a (name, full_address) that the collection already
\* holds changes nothing: no step appends a record whose identifier is in
\* the collection, and the records in it stay as the first observation
\* left them
C6_FirstObservationWins ==
    [][/\ Len(results') >= Len(results)
       /\ SubSeq(results', 1, Len(results)) = results
       /\ \A k \in (Len(results) + 1)..Len(results') :
             \A i \in Positions : Key(results[i]) # Key(results'[k])]_vars

\* ------------------------ searches that fail -------------------------

TaskRecords(t) ==
    {i \in Positions :
        /\ results[i]["search_query"] = search_combinations(config)[t].query
        /\ results[i]["search_area"] = search_combinations(config)[t].location}

\* C9: a search ends with no results only from the wait for the result
\* list, at once and without touching the collection or the identifier
\* set; such a task has contributed no record, and once the runner has
\* dealt with it the next combination can start
C9_NoResultsEndsTask ==
    /\ [](\A t \in Tasks :
             outcome[t] = "no_results" =>
                /\ pc[t] = "done"
                /\ TaskRecords(t) = {}
                /\ (rpc = "running" /\ coro[t] = "finished" /\ t + 1 \in Tasks
                       /\ coro[t + 1] = "pending") =>
                      ENABLED (SeqStart(t + 1) \/ ConcStart(t + 1)))
    /\ [][\A t \in Tasks :
             (outcome[t] # "no_results" /\ outcome'[t] = "no_results") =>
                /\ pc[t] = "wait_results"
                /\ pc'[t] = "done"
                /\ UNCHANGED <<results, seen_identifiers>>]_vars

\* A search has ended with no results and the one after it has run and
\* left a record
C9_Witness ==
    \E t \in Tasks :
       /\ outcome[t] = "no_results"
       /\ t + 1 \in Tasks
       /\ pc[t + 1] = "done"
       /\ TaskRecords(t + 1) # {}

\* C10: the batch is over only when every combination has been started
\* and dealt with, whatever the others came to; while a combination is
\* left, either a search is under way or the next one can start; and no
\* step takes a record out of the collection
C10_EveryTaskAttempted ==
    /\ []((rpc \in {"check", "closing"} \/ (rpc = "returned" /\ session = "closed")) =>
             \A t \in Tasks : coro[t] = "finished" /\ pc[t] # "idle")
    /\ []((rpc = "running" /\ \E t \in Tasks : coro[t] = "pending") =>
             \/ \E u \in Tasks : coro[u] = "running"
             \/ ENABLED (\E t \in Tasks : SeqStart(t) \/ ConcStart(t)))
    /\ [][/\ Len(results') >= Len(results)
          /\ SubSeq(results', 1, Len(results)) = results]_vars

\* The batch is over, one search timed out or raised, and a search after
\* it has left a record
C10_Witness ==
    /\ rpc = "returned"
    /\ \E t \in Tasks :
          /\ progress.errors_encountered > 0
          /\ TaskRecords(t) = {}
          /\ t + 1 \in Tasks
          /\ TaskRecords(t + 1) # {}

\* ------------------------- the run as a whole ------------------------

\* One of the parameters is invalid: a result cap that is not positive, a
\* negative delay, fewer than one concurrent search, negative retry
\* settings, an output format that is not known
InvalidParameter ==
    \/ config.max_results_per_search <= 0
    \/ config.delay_between_searches < 0
    \/ config.max_concurrent_searches < 1
    \/ config.max_retries < 0
    \/ config.retry_delay < 0
    \/ config.output_format \notin {"csv", "json", "excel"}

\* C13: with an invalid parameter the run goes from its start straight to
\* the return of CONFIG_ERROR: no session is created, no search starts, no
\* record is collected and no file is written
C13_InvalidConfigRejected ==
    InvalidParameter =>
       /\ rpc \in {"new", "returned", "exited"}
       /\ rpc = "returned" => exit_code = "CONFIG_ERROR"
       /\ session = "none"
       /\ \A t \in Tasks : coro[t] = "pending" /\ pc[t] = "idle"
       /\ results = <<>>
       /\ seen_identifiers = {}
       /\ written = None

\* A run with an unknown output format has returned CONFIG_ERROR
C13_Witness ==
    /\ config.output_format = "xml"
    /\ rpc = "returned"
    /\ exit_code = "CONFIG_ERROR"

\* C11: when the runner takes back a search that gave up after its third
\* driver error, or that stopped on the run of failures, it counts one
\* more error
C11_FailedTaskCounted ==
    [][\A t \in Tasks :
          (/\ coro[t] = "running"
           /\ coro'[t] = "finished"
           /\ pc[t] = "done"
           /\ outcome[t] \in {"retries_exhausted", "too_many_failures"}) =>
             progress'.errors_encountered = progress.errors_encountered + 1]_vars

\* C12: a CSV file, when written, has the 13 columns in the fixed order and
\* one row for each record of the collection; every field of a row holds
\* the record's value, or 'N/A' where the record has none, and none is
\* empty
C12_CsvColumnsAndRows ==
    [][(written' # written /\ written'.main # None /\ written'.main.format = "csv") =>
          LET file == written'.main
              cols == <<"name", "website", "phone", "full_address", "street",
                        "postal_code", "reviews", "rating", "review_count",
                        "photo_count", "location_link", "search_query",
                        "search_area">>
          IN  /\ file.header = cols
              /\ Len(file.rows) = Len(results)
              /\ \A i \in 1..Len(results) :
                    /\ Len(file.rows[i]) = 13
                    /\ \A k \in 1..13 :
                          /\ file.rows[i][k] # <<>>
                          /\ file.rows[i][k] =
                                IF cols[k] \in DOMAIN results[i]
                                THEN results[i][cols[k]] ELSE NA]_vars

\* A CSV file of two rows, with an 'N/A' in it, has been written
C12_Witness ==
    /\ written # None
    /\ written.main # None
    /\ written.main.format = "csv"
    /\ Len(written.main.rows) = 2
    /\ \E k \in 1..13 : written.main.rows[1][k] = NA

\* C14: the run returns SUCCESS only when no search was counted as an
\* error and both files were written; NO_RESULTS goes with no file, and
\* SAVE_ERROR with a save that did not complete
C14_ExitStatusAggregate ==
    (rpc = "returned" /\ session = "closed") =>
       /\ exit_code = "SUCCESS" =>
             /\ progress.errors_encountered = 0
             /\ written # None
             /\ written.summary # None
       /\ exit_code = "NO_RESULTS" => written = None
       /\ exit_code = "SAVE_ERROR" => (written = None \/ written.summary = None)
       /\ exit_code \in {"SUCCESS", "NO_RESULTS", "SAVE_ERROR"}

\* C15: when the interrupt ends a run that has collected a record, the
\* output has been written by the time the process exits
C15_InterruptSavesResults ==
    [][(rpc # "exited" /\ rpc' = "exited" /\ Len(results) > 0) =>
          (exit_code' = "INTERRUPTED" /\ written' # None)]_vars

\* C16: a run that created a session has closed it when it returns or
\* exits, and once the session is closed no search thread is at work
C16_SessionClosedAndQuiet ==
    /\ (rpc \in {"returned", "exited"} /\ session # "none") => session = "closed"
    /\ session = "closed" => \A t \in Tasks : pc[t] \in {"idle", "done"}

\* The tasks whose search_locations call is executing
Executing == {t \in Tasks : pc[t] \notin {"idle", "done"}}

\* C17: at most one search_locations call is executing at any moment
C17_OneTaskAtATime == Cardinality(Executing) <= 1

\* C18: the calls that are executing, abandoned ones included, are never
\* more than max_concurrent_searches
C18_WithinConcurrencyLimit ==
    rpc # "new" => Cardinality(Executing) <= config.max_concurrent_searches

\* C19: attempts are numbered 0 to 2; a new attempt starts only from a
\* restart of the driver, a restart follows only a driver error of an
\* attempt before the third, and a call that has ended starts nothing
C19_AtMostThreeAttempts ==
    /\ [](\A t \in Tasks : attempt[t] \in 0..2)
    /\ [][\A t \in Tasks :
             /\ attempt'[t] # attempt[t] =>
                   \/ /\ pc[t] = "restart"
                      /\ pc'[t] = "perform"
                      /\ attempt'[t] = attempt[t] + 1
                   \/ pc'[t] = "done"
             /\ (pc[t] # "perform" /\ pc'[t] = "perform") =>
                   pc[t] \in {"idle", "restart"}
             /\ (pc[t] # "restart" /\ pc'[t] = "restart") =>
                   /\ pc[t] \in {"perform", "scroll"}
                   /\ attempt[t] < 2
             /\ (outcome[t] # "retries_exhausted"
                    /\ outcome'[t] = "retries_exhausted") =>
                   /\ pc[t] \in {"perform", "scroll"}
                   /\ attempt[t] = 2
             /\ pc[t] = "done" => pc'[t] = "done"]_vars

\* A search is in its third attempt
C19_Witness ==
    \E t \in Tasks : attempt[t] = 2 /\ pc[t] = "wait_results"

\* C20: a failed entry adds one to the count of consecutive failures, a
\* registered one sets it to zero, each moves on to the next entry, and the
\* search stops on failures only when the count is above 5
C20_AbortAboveFive ==
    [][\A t \in Tasks :
          /\ (pc[t] \in {"process", "check"} /\ pc'[t] = "loop") =>
                /\ consecutive_failures'[t] = consecutive_failures[t] + 1
                /\ processed'[t] = processed[t] + 1
          /\ (pc[t] = "append" /\ pc'[t] = "loop") =>
                /\ consecutive_failures'[t] = 0
                /\ processed'[t] = processed[t] + 1
          /\ (outcome[t] # "too_many_failures"
                 /\ outcome'[t] = "too_many_failures") =>
                consecutive_failures[t] > 5]_vars

\* C21: an entry whose record is already registered is not counted as a
\* failed entry: leaving the membership test of line 211 without a new
\* record does not raise the count of consecutive failures, and so a search
\* does not stop for too many failures right after such an entry
C21_DuplicateIsNoFailure ==
    [][\A t \in Tasks :
          (pc[t] = "check" /\ pc'[t] = "loop") =>
             consecutive_failures'[t] <= consecutive_failures[t]]_vars

\* ---------------------------------------------------------------------
\* Specification SpecScroll: one call of scroll_results of
\* improved_scraper.py, lines 261-299
\* ---------------------------------------------------------------------

\* The most tiles the result list shows
MaxCount == 4

\* The largest argument scroll_results is called with
MaxToLoad == 3

\* Line 279: stagnant_rounds >= 3
stagnant_limit == 3

InitScroll ==
    /\ max_to_load \in 1..MaxToLoad
    /\ count = 0
    /\ prev_count = 0
    /\ stagnant_rounds = 0
    /\ scroll_at = "panel"
    /\ ParseIdle
    /\ ExtractIdle
    /\ ScraperInit
    /\ RunnerIdle
    /\ DedupeIdle

scroll_frame ==
    UNCHANGED <<max_to_load, parseVars, extractVars, scraperVars, runnerVars,
                taskVars, dedupeVars, tiles>>

\* Lines 263-273: the results panel is looked up, the body as a fallback
\* (which may raise), and the counters are set
FindPanel ==
    /\ scroll_at = "panel"
    /\ \/ /\ scroll_at' = "tiles"
          /\ prev_count' = 0
          /\ stagnant_rounds' = 0
       \/ /\ scroll_at' = "raised"
          /\ UNCHANGED <<prev_count, stagnant_rounds>>
    /\ UNCHANGED count
    /\ scroll_frame

\* Lines 275-280: the tiles are counted and the loop is left when the
\* count has reached max_to_load or stagnant_rounds has reached 3
CountTiles ==
    /\ scroll_at = "tiles"
    /\ \E n \in 0..MaxCount :
          /\ count' = n
          /\ scroll_at' = IF n >= max_to_load \/ stagnant_rounds >= stagnant_limit
                          THEN "returned" ELSE "compare"
    /\ UNCHANGED <<prev_count, stagnant_rounds>>
    /\ scroll_frame

\* Lines 282-285: the count is compared with that of the round before
CompareCount ==
    /\ scroll_at = "compare"
    /\ stagnant_rounds' = IF count = prev_count THEN stagnant_rounds + 1 ELSE 0
    /\ scroll_at' = "scroll"
    /\ UNCHANGED <<count, prev_count>>
    /\ scroll_frame

\* Lines 287-298: the panel is scrolled to its bottom, the page as a
\* fallback (which may raise); then prev_count = count
ScrollDown ==
    /\ scroll_at = "scroll"
    /\ \/ /\ prev_count' = count
          /\ scroll_at' = "tiles"
       \/ /\ scroll_at' = "raised"
          /\ UNCHANGED prev_count
    /\ UNCHANGED <<count, stagnant_rounds>>
    /\ scroll_frame

NextScroll ==
    \/ FindPanel
    \/ CountTiles
    \/ CompareCount
    \/ ScrollDown

SpecScroll == InitScroll /\ [][NextScroll]_vars

\* The call goes on as long as it has a step to take
SpecScrollFair == SpecScroll /\ WF_vars(NextScroll)

\* C22: scroll_results leaves its loop only when the count has reached
\* max_to_load or has stayed unchanged for 3 rounds, and it triggers no
\* scroll once either of the two holds
C22_ScrollUntilTargetOrStagnant ==
    [][/\ (scroll_at = "tiles" /\ scroll_at' = "returned") =>
             \/ count' >= max_to_load
             \/ stagnant_rounds' >= stagnant_limit
       /\ (scroll_at = "scroll" /\ scroll_at' = "tiles") =>
             /\ count < max_to_load
             /\ stagnant_rounds < stagnant_limit]_vars

\* C27: every call of scroll_results ends, whatever counts the result list
\* reports between the scrolls
C27_ScrollTerminates == <>(scroll_at \in {"returned", "raised"})

\* ---------------------------------------------------------------------
\* Specification SpecSearch: one call of search_locations on a new scraper,
\* with the length of the list read in each round of the loop kept in tiles
\* ---------------------------------------------------------------------

\* A search for a few entries and one for more than a list may show
SearchConfigs ==
    { [DefaultConfig EXCEPT !.max_results_per_search = n] : n \in {2, LoopResults} }

InitSearch ==
    /\ config \in SearchConfigs
    /\ rpc = "idle"
    /\ exit_code = None
    /\ session = "none"
    /\ coro = [t \in Tasks |-> "running"]
    /\ initial_count = [t \in Tasks |-> 0]
    /\ progress = None
    /\ written = None
    /\ pc = [t \in Tasks |-> "perform"]
    /\ attempt = [t \in Tasks |-> 0]
    /\ processed = [t \in Tasks |-> 0]
    /\ consecutive_failures = [t \in Tasks |-> 0]
    /\ business_data = [t \in Tasks |-> None]
    /\ outcome = [t \in Tasks |-> "none"]
    /\ tiles = 0
    /\ ScraperInit
    /\ ParseIdle
    /\ ExtractIdle
    /\ ScrollIdle
    /\ DedupeIdle

\* Lines 150-153, the length of the list kept
LoopTestKept(t) ==
    /\ pc[t] = "loop"
    /\ IF loop_goes_on(t)
       THEN \E n \in 0..MaxTiles : tiles_read(t, n) /\ tiles' = n
       ELSE loop_left(t) /\ UNCHANGED tiles
    /\ UNCHANGED <<business_data, runnerVars, scraperVars, parseVars, extractVars,
                   scrollVars, dedupeVars>>

NextSearch ==
    \E t \in Tasks :
       \/ PerformSearch(t)
       \/ RestartDriver(t)
       \/ WaitForResults(t)
       \/ ScrollResults(t)
       \/ LoopTestKept(t)
       \/ ProcessResult(t)
       \/ CheckSeen(t)
       \/ AddSeen(t)
       \/ AppendResult(t)

SpecSearch == InitSearch /\ [][NextSearch]_vars

\* Where a call stands while it is in the loop over the entries
LoopPcs == {"loop", "process", "check", "add", "append"}

\* C23: within a search the entries are taken at the indices 0, 1, 2, ...,
\* each once, whether it was registered or failed: an entry is opened only
\* at an index below max_results_per_search and below the length of the
\* list, every entry done moves the index up by one, the index changes in
\* no other way while the loop runs, and the loop is entered once
C23_IndicesInOrder ==
    [][\A t \in Tasks :
          /\ (pc[t] = "loop" /\ pc'[t] = "process") =>
                /\ processed[t] < tiles'
                /\ processed[t] < config.max_results_per_search
          /\ (pc[t] \in LoopPcs /\ pc'[t] \in LoopPcs) =>
                processed'[t] =
                   IF pc[t] # "loop" /\ pc'[t] = "loop"
                   THEN processed[t] + 1 ELSE processed[t]
          /\ (pc[t] \in LoopPcs /\ pc'[t] = "loop") =>
                processed'[t] <= tiles
          /\ (pc[t] \notin LoopPcs /\ pc'[t] \in LoopPcs) =>
                /\ pc[t] = "scroll"
                /\ pc'[t] = "loop"
                /\ processed'[t] = 0
          /\ pc[t] \in LoopPcs => pc'[t] \in LoopPcs \cup {"done"}]_vars

\* The third entry of a list is opened after one entry was registered and
\* one had failed
C23_Witness ==
    \E t \in Tasks :
       /\ pc[t] = "process"
       /\ processed[t] = 2
       /\ Len(results) = 1
       /\ tiles = 3

\* C24: results is append-only and _seen_identifiers only grows: every step
\* of a batch run, the restart of the driver and the retry of a search
\* included, leaves the records registered so far in place, in their order
\* and unmodified, and keeps every identifier
C24_AppendOnly ==
    [][/\ Len(results') >= Len(results)
       /\ SubSeq(results', 1, Len(results)) = results
       /\ seen_identifiers \subseteq seen_identifiers']_vars

\* A search is retried after a restart of the driver while the scraper
\* holds a record
C24_Witness ==
    \E t \in Tasks :
       /\ attempt[t] > 0
       /\ pc[t] = "perform"
       /\ Len(results) > 0
       /\ seen_identifiers # {}

\* C28: when a batch run has returned and no search thread is left running,
\* results_collected of the summary equals the number of records the
\* scraper holds
C28_ResultsCollectedIsLen ==
    (rpc = "returned" /\ \A t \in Tasks : pc[t] \in {"idle", "done"}) =>
        progress.results_collected = Len(results)

\* The summary counts as many searches as tasks have been dealt with, and
\* no more errors than searches
CountedOnce ==
    /\ progress.searches_completed = Cardinality({t \in Tasks : coro[t] = "finished"})
    /\ progress.searches_completed <= progress.total_searches
    /\ progress.errors_encountered <= progress.searches_completed

\* At the end of a run every task has been counted, and total_searches is
\* the number of queries times the number of locations
AllCounted ==
    /\ progress.searches_completed = progress.total_searches
    /\ progress.total_searches =
          (IF Len(config.queries) > 0 THEN Len(config.queries) ELSE 1)
          * (IF Len(config.locations) > 0 THEN Len(config.locations) ELSE 1)

\* C29 as stated: every task is counted once by update_progress, whether it
\* succeeded, failed or timed out, and whenever a run has returned without
\* being interrupted searches_completed equals total_searches, the number
\* of queries times the number of locations
C29_AllTasksCountedAtReturn ==
    config \in ValidConfigs =>
       /\ CountedOnce
       /\ rpc = "returned" => AllCounted

\* C29 amended: every task is counted once by update_progress, and a run
\* that opened its scraper session and returned without being interrupted
\* has searches_completed equal to total_searches, the number of queries
\* times the number of locations
C29_EachTaskCountedOnce ==
    config \in ValidConfigs =>
       /\ CountedOnce
       /\ (rpc \in {"check", "closing"}
             \/ (rpc = "returned" /\ exit_code # "SCRAPING_ERROR")) => AllCounted

\* A run of two tasks has returned; one search was counted as an error
C29_Witness ==
    /\ rpc = "returned"
    /\ exit_code = "SUCCESS"
    /\ progress.total_searches = 2
    /\ progress.searches_completed = 2
    /\ progress.errors_encountered = 1

\* ---------------------------------------------------------------------
\* Specification SpecDedupe: run_scrape of test/dmv_maps_scraper.py, the
\* variant that deduplicates on place URL and phone
\* ---------------------------------------------------------------------

\* The most queries of a run, and the most records its cards give
MaxQueries == 2

MaxCaptured == 3

\* Place URLs, one of them with a parameter after '&', and phones, '' when
\* the place shows none
PlaceUrls ==
    { <<"u", "1">>, <<"u", "2">>, <<"u", "1", "&", "h", "l">> }

Phones == { <<>>, <<"5", "5", "5">>, <<"7", "7", "7">> }

PlaceRecords == [name : {<<"R">>}, phone : Phones, place_url : PlaceUrls]

\* r.place_url.split("&", 1)[0]
key_url(r) ==
    LET cut == FindSub(r.place_url, <<"&">>)
    IN  IF cut = 0 THEN r.place_url ELSE SubSeq(r.place_url, 1, cut - 1)

\* The for loop of dedupe_records from index i on
RECURSIVE dedupe_from(_, _, _, _, _)
dedupe_from(records, i, seen_urls, seen_phones, out) ==
    IF i > Len(records) THEN out
    ELSE LET r == records[i]
         IN  IF key_url(r) # <<>> /\ key_url(r) \in seen_urls
             THEN dedupe_from(records, i + 1, seen_urls, seen_phones, out)
             ELSE IF r.phone # <<>> /\ r.phone \in seen_phones
             THEN dedupe_from(records, i + 1, seen_urls, seen_phones, out)
             ELSE dedupe_from(records, i + 1,
                              IF key_url(r) # <<>>
                              THEN seen_urls \cup {key_url(r)} ELSE seen_urls,
                              IF r.phone # <<>>
                              THEN seen_phones \cup {r.phone} ELSE seen_phones,
                              Append(out, r))

dedupe_records(records) == dedupe_from(records, 1, {}, {}, <<>>)

InitDedupe ==
    /\ queries_left \in 1..MaxQueries
    /\ scrape_at = "queries"
    /\ q_records = <<>>
    /\ all_records = <<>>
    /\ captured = <<>>
    /\ clean = <<>>
    /\ ParseIdle
    /\ ExtractIdle
    /\ ScraperInit
    /\ RunnerIdle
    /\ ScrollIdle

dedupe_frame ==
    UNCHANGED <<parseVars, extractVars, scraperVars, runnerVars, taskVars,
                scrollVars, tiles>>

\* Lines 326-335: the next query is searched, q_records = []
StartQuery ==
    /\ scrape_at = "queries"
    /\ queries_left > 0
    /\ queries_left' = queries_left - 1
    /\ q_records' = <<>>
    /\ scrape_at' = "cards"
    /\ UNCHANGED <<all_records, captured, clean>>
    /\ dedupe_frame

\* Lines 337-351: a card is opened and gives a record with a name
OpenCard ==
    /\ scrape_at = "cards"
    /\ Len(captured) < MaxCaptured
    /\ \E rec \in PlaceRecords :
          /\ q_records' = Append(q_records, rec)
          /\ captured' = Append(captured, rec)
    /\ UNCHANGED <<queries_left, scrape_at, all_records, clean>>
    /\ dedupe_frame

\* Lines 354-355: q_records = dedupe_records(q_records);
\* all_records.extend(q_records)
EndQuery ==
    /\ scrape_at = "cards"
    /\ q_records' = dedupe_records(q_records)
    /\ all_records' = all_records \o dedupe_records(q_records)
    /\ scrape_at' = "queries"
    /\ UNCHANGED <<queries_left, captured, clean>>
    /\ dedupe_frame

\* Lines 358-362: clean = dedupe_records(all_records) is written, nothing
\* when no record was captured
WriteClean ==
    /\ scrape_at = "queries"
    /\ queries_left = 0
    /\ clean' = IF all_records # <<>> THEN dedupe_records(all_records) ELSE <<>>
    /\ scrape_at' = "written"
    /\ UNCHANGED <<queries_left, q_records, all_records, captured>>
    /\ dedupe_frame

NextDedupe ==
    \/ StartQuery
    \/ OpenCard
    \/ EndQuery
    \/ WriteClean

SpecDedupe == InitDedupe /\ [][NextDedupe]_vars

\* C30: the records run_scrape writes, deduplicated per query and then over
\* the per-query results, are the records of one dedupe_records pass over
\* all the records of all the queries, in the same order
C30_TwoStageIsOnePass ==
    scrape_at = "written" => clean = dedupe_records(captured)

====
